---- MODULE Spec2Model ----
(***************************************************************************)
(* A model of proptest-recurse: the registry StrategySet (src/src/lib.rs), *)
(* the combinator prop_mutually_recursive (src/src/lib.rs) and the lazily  *)
(* unrolled strategy Recursive (src/src/recursive.rs), together with the   *)
(* mutually recursive pair arb_first / arb_second of src/tests/mutual.rs.  *)
(***************************************************************************)
EXTENDS Integers, Sequences, FiniteSets, TLC

(***************************************************************************)
(* Unsigned integers.  u32 and u64 values do not fit the model checker's   *)
(* integers, so a number is a sequence of limbs in base 2^15, least        *)
(* significant limb first and without leading zero limbs: 0 is << >>.      *)
(***************************************************************************)
U32Bits == 32

U64Bits == 64

F64MantBits == 53

LimbBits == 15

LimbBase == 2 ^ LimbBits

\* An operator that reads an operand more than once binds it through a
\* singleton set first, so that the operand is evaluated once, under
\* ENABLED too.
RECURSIVE Zeros(_)
Zeros(n) == IF n <= 0 THEN << >> ELSE <<0>> \o Zeros(n - 1)

RECURSIVE Norm(_)
Norm(b0) ==
    CHOOSE val \in {(
        IF Len(b) > 0 /\ b[Len(b)] = 0 THEN Norm(SubSeq(b, 1, Len(b) - 1)) ELSE b
        ) : b \in {b0}} : TRUE

RECURSIVE FromNat(_)
FromNat(n) ==
    IF n = 0 THEN << >> ELSE <<n % LimbBase>> \o FromNat(n \div LimbBase)

RECURSIVE ToNat(_)
ToNat(b) == IF b = << >> THEN 0 ELSE b[1] + LimbBase * ToNat(Tail(b))

LimbAt(b, i) == IF i >= 1 /\ i <= Len(b) THEN b[i] ELSE 0

RECURSIVE AddFrom(_, _, _, _)
AddFrom(a, b, i, c) ==
    IF i > Len(a) /\ i > Len(b)
    THEN IF c = 1 THEN <<1>> ELSE << >>
    ELSE LET s == LimbAt(a, i) + LimbAt(b, i) + c
         IN  <<s % LimbBase>> \o AddFrom(a, b, i + 1, s \div LimbBase)

BigAdd(a0, b0) ==
    CHOOSE val \in {(
        AddFrom(a, b, 1, 0)
        ) : a \in {a0}, b \in {b0}} : TRUE

RECURSIVE SubFrom(_, _, _, _)
SubFrom(a, b, i, c) ==
    IF i > Len(a)
    THEN << >>
    ELSE LET s == LimbAt(a, i) - LimbAt(b, i) - c
         IN  <<s % LimbBase>> \o SubFrom(a, b, i + 1, IF s < 0 THEN 1 ELSE 0)

\* a - b for a >= b
BigSub(a0, b0) ==
    CHOOSE val \in {(
        Norm(SubFrom(a, b, 1, 0))
        ) : a \in {a0}, b \in {b0}} : TRUE

RECURSIVE LessFrom(_, _, _)
LessFrom(a, b, i) ==
    IF i = 0 THEN FALSE
    ELSE IF a[i] # b[i] THEN a[i] < b[i]
    ELSE LessFrom(a, b, i - 1)

BigLess(a0, b0) ==
    CHOOSE val \in {(
        IF Len(a) # Len(b) THEN Len(a) < Len(b) ELSE LessFrom(a, b, Len(a))
        ) : a \in {a0}, b \in {b0}} : TRUE

BigLeq(a, b) == ~BigLess(b, a)

RECURSIVE MulSmallFrom(_, _, _, _)
MulSmallFrom(a, m, i, c) ==
    IF i > Len(a)
    THEN IF c > 0 THEN <<c>> ELSE << >>
    ELSE LET s == a[i] * m + c
         IN  <<s % LimbBase>> \o MulSmallFrom(a, m, i + 1, s \div LimbBase)

\* a * m for a limb m
BigMulSmall(a0, m0) ==
    CHOOSE val \in {(
        Norm(MulSmallFrom(a, m, 1, 0))
        ) : a \in {a0}, m \in {m0}} : TRUE

RECURSIVE MulFrom(_, _, _)
MulFrom(a, b, i) ==
    IF i > Len(b) THEN << >>
    ELSE LET row == BigMulSmall(a, b[i])
         IN  BigAdd(IF row = << >> THEN << >> ELSE Zeros(i - 1) \o row,
                    MulFrom(a, b, i + 1))

BigMul(a0, b0) ==
    CHOOSE val \in {(
        MulFrom(a, b, 1)
        ) : a \in {a0}, b \in {b0}} : TRUE

RECURSIVE DivSmallFrom(_, _, _, _)
DivSmallFrom(a, m, i, r) ==
    IF i = 0 THEN << >>
    ELSE LET s == r * LimbBase + a[i]
         IN  DivSmallFrom(a, m, i - 1, s % m) \o <<s \div m>>

\* the quotient of a by a limb m # 0
BigDivSmall(a0, m0) ==
    CHOOSE val \in {(
        Norm(DivSmallFrom(a, m, Len(a), 0))
        ) : a \in {a0}, m \in {m0}} : TRUE

RECURSIVE SmallBitLen(_)
SmallBitLen(n) == IF n = 0 THEN 0 ELSE 1 + SmallBitLen(n \div 2)

\* the number of significant bits of a
BitLen(a0) ==
    CHOOSE val \in {(
        IF a = << >> THEN 0 ELSE LimbBits * (Len(a) - 1) + SmallBitLen(a[Len(a)])
        ) : a \in {a0}} : TRUE

Pow2(n) == Zeros(n \div LimbBits) \o <<2 ^ (n % LimbBits)>>

\* a * 2^n
ShlBits(a0, n0) ==
    CHOOSE val \in {(
        IF a = << >> THEN << >>
        ELSE Zeros(n \div LimbBits) \o BigMulSmall(a, 2 ^ (n % LimbBits))
        ) : a \in {a0}, n \in {n0}} : TRUE

\* a \div 2^n
ShrBits(a0, n0) ==
    CHOOSE val \in {(
        IF n \div LimbBits >= Len(a) THEN << >>
        ELSE BigDivSmall(SubSeq(a, n \div LimbBits + 1, Len(a)), 2 ^ (n % LimbBits))
        ) : a \in {a0}, n \in {n0}} : TRUE

\* bit i of a, bit 0 the least significant
TestBit(a0, i0) ==
    CHOOSE val \in {(
        (LimbAt(a, i \div LimbBits + 1) \div (2 ^ (i % LimbBits))) % 2
        ) : a \in {a0}, i \in {i0}} : TRUE

\* whether one of the n low bits of a is set
LowBitsSet(a0, n0) ==
    CHOOSE val \in {(
        ShlBits(ShrBits(a, n), n) # a
        ) : a \in {a0}, n \in {n0}} : TRUE

RECURSIVE QuotDigit(_, _, _, _)
\* the largest limb d with d * b <= r, found bit by bit from the top
QuotDigit(r, b, bit, d) ==
    IF bit < 0 THEN d
    ELSE CHOOSE res \in
             {QuotDigit(r, b, bit - 1, n) :
                 n \in {IF BigLeq(BigMulSmall(b, d + 2 ^ bit), r)
                        THEN d + 2 ^ bit ELSE d}} : TRUE

RECURSIVE DivFrom(_, _, _, _, _)
DivFrom(a, b, i, r, q) ==
    IF i = 0 THEN [q |-> Norm(q), r |-> r]
    ELSE CHOOSE res \in UNION UNION
             {{{DivFrom(a, b, i - 1, r2, q1) :
                   r2 \in {BigSub(r1, BigMulSmall(b, d))}, q1 \in {<<d>> \o q}} :
                 d \in {QuotDigit(r1, b, LimbBits - 1, 0)}} :
               r1 \in {Norm(<<a[i]>> \o r)}} : TRUE

\* quotient and remainder of a by b, for b # 0
BigDivMod(a0, b0) ==
    CHOOSE val \in {(
        DivFrom(a, b, Len(a), << >>, << >>)
        ) : a \in {a0}, b \in {b0}} : TRUE

U32Max == BigSub(Pow2(U32Bits), <<1>>)

U64Max == BigSub(Pow2(U64Bits), <<1>>)

(***************************************************************************)
(* f64.  A double is zero, infinite, not a number, or m * 2^e with m of    *)
(* exactly F64MantBits bits.  The values met here are never negative and   *)
(* never subnormal (the smallest is 1 / 2^64).                             *)
(***************************************************************************)
F64Zero == [cls |-> "zero", m |-> << >>, e |-> 0]

F64Inf == [cls |-> "inf", m |-> << >>, e |-> 0]

F64NaN == [cls |-> "nan", m |-> << >>, e |-> 0]

\* n * 2^e, plus a dropped nonzero part below n's last bit when sticky,
\* rounded to the nearest double, ties to even
RoundF64(n0, sticky0, e0) ==
    CHOOSE val \in {(
        IF n = << >> THEN F64Zero
        ELSE LET len == BitLen(n)
             IN  IF len <= F64MantBits
                 THEN [cls |-> "finite", m |-> ShlBits(n, F64MantBits - len),
                       e |-> e - (F64MantBits - len)]
                 ELSE LET d     == len - F64MantBits
                          q     == ShrBits(n, d)
                          guard == TestBit(n, d - 1) = 1
                          rest  == sticky \/ LowBitsSet(n, d - 1)
                          up    == guard /\ (rest \/ TestBit(q, 0) = 1)
                          q1    == IF up THEN BigAdd(q, <<1>>) ELSE q
                     IN  IF BitLen(q1) > F64MantBits
                         THEN [cls |-> "finite", m |-> ShrBits(q1, 1), e |-> e + d + 1]
                         ELSE [cls |-> "finite", m |-> q1, e |-> e + d]
        ) : n \in {n0}, sticky \in {sticky0}, e \in {e0}} : TRUE

\* f64::from(u32): exact
F64FromU32(n) == RoundF64(n, FALSE, 0)

\* u64 as f64: rounds above 2^53
F64FromU64(n) == RoundF64(n, FALSE, 0)

\* a / b
F64Div(a0, b0) ==
    CHOOSE val \in {(
        IF a.cls = "nan" \/ b.cls = "nan" THEN F64NaN
        ELSE IF a.cls = "inf" THEN (IF b.cls = "inf" THEN F64NaN ELSE F64Inf)
        ELSE IF b.cls = "inf" THEN F64Zero
        ELSE IF b.cls = "zero" THEN (IF a.cls = "zero" THEN F64NaN ELSE F64Inf)
        ELSE IF a.cls = "zero" THEN F64Zero
        ELSE LET qr == BigDivMod(ShlBits(a.m, F64MantBits + 2), b.m)
             IN  RoundF64(qr.q, qr.r # << >>, a.e - b.e - (F64MantBits + 2))
        ) : a \in {a0}, b \in {b0}} : TRUE

F64Rank(a) == IF a.cls = "zero" THEN 0 ELSE IF a.cls = "finite" THEN 1 ELSE 2

\* a < b, false when either is not a number
F64Less(a0, b0) ==
    CHOOSE val \in {(
        IF a.cls = "nan" \/ b.cls = "nan" THEN FALSE
        ELSE IF a.cls # "finite" \/ b.cls # "finite" THEN F64Rank(a) < F64Rank(b)
        ELSE IF a.e # b.e THEN a.e < b.e
        ELSE BigLess(a.m, b.m)
        ) : a \in {a0}, b \in {b0}} : TRUE

\* f64::min: the other argument when one is not a number
F64Min(a0, b0) ==
    CHOOSE val \in {(
        IF a.cls = "nan" THEN b
        ELSE IF b.cls = "nan" THEN a
        ELSE IF F64Less(b, a) THEN b ELSE a
        ) : a \in {a0}, b \in {b0}} : TRUE

F64One == F64FromU32(<<1>>)

\* the literal 0.9, the double nearest to 9/10
F64Lit09 == F64Div(F64FromU32(FromNat(9)), F64FromU32(FromNat(10)))

\* f * 2^n, exact while the exponent stays in range
F64Scale(f0, n0) ==
    CHOOSE val \in {(
        IF f.cls = "finite" THEN [f EXCEPT !.e = @ + n] ELSE f
        ) : f \in {f0}, n \in {n0}} : TRUE

\* f64::round of a finite f >= 0, halves away from zero, as an integer
F64Round(f0) ==
    CHOOSE val \in {(
        IF f.cls # "finite" THEN << >>
        ELSE IF f.e >= 0 THEN ShlBits(f.m, f.e)
        ELSE ShrBits(BigAdd(f.m, Pow2(-f.e - 1)), -f.e)
        ) : f \in {f0}} : TRUE

\* an integer as u32: the cast saturates
AsU32(n0) ==
    CHOOSE val \in {(
        IF BitLen(n) > U32Bits THEN U32Max ELSE n
        ) : n \in {n0}} : TRUE

BigMin(a0, b0) ==
    CHOOSE val \in {(
        IF BigLess(b, a) THEN b ELSE a
        ) : a \in {a0}, b \in {b0}} : TRUE

BigMax(a0, b0) ==
    CHOOSE val \in {(
        IF BigLess(a, b) THEN b ELSE a
        ) : a \in {a0}, b \in {b0}} : TRUE

\* proptest's WEIGHT_BASE, 0x8000_0000
WEIGHT_BASE == Pow2(31)

(***************************************************************************)
(* proptest::strategy::float_to_weight, the function of the proptest crate *)
(* that recursive.rs imports and calls: it asserts 0 < f < 1 and returns   *)
(* (pos, neg) with pos = max(1, min(WEIGHT_BASE - 1, round(f *             *)
(* WEIGHT_BASE))) and neg = WEIGHT_BASE - pos.  ok = FALSE is the failed   *)
(* assertion, a panic.                                                     *)
(***************************************************************************)
float_to_weight(f0) ==
    CHOOSE val \in {(
        IF ~(F64Less(F64Zero, f) /\ F64Less(f, F64One))
        THEN [ok |-> FALSE, pos |-> 0, neg |-> 0]
        ELSE LET r   == AsU32(F64Round(F64Scale(f, 31)))
                 pos == BigMax(<<1>>, BigMin(BigSub(WEIGHT_BASE, <<1>>), r))
             IN  [ok |-> TRUE, pos |-> ToNat(pos),
                  neg |-> ToNat(BigSub(WEIGHT_BASE, pos))]
        ) : f \in {f0}} : TRUE

(***************************************************************************)
(* Strategies.  A strategy is an immutable value; SBoxedStrategy is a      *)
(* shared pointer to one, so clone and sboxed are the identity on the      *)
(* value.  ty is the type of the values the strategy generates.            *)
(***************************************************************************)
Types == {"First", "Second"}

\* what a recursion step may ask the registry for: a type, or nothing
NoType == "none"

\* the other type of the group
Other(T) == CHOOSE U \in Types : U # T

\* Just(First::Zero), Just(Second::Zero)
Just(T) == [tag |-> "Just", ty |-> T]

\* s.prop_map(First::Second), s.prop_map(Second::First)
Map(T, s) == [tag |-> "Map", ty |-> T, source |-> s]

\* vec(s, 0..8)
Vec(s) == [tag |-> "Vec", ty |-> "Vec", element |-> s]

\* prop_oneof![weight_leaf => leaf, weight_branch => branch]
Union(wl, leaf, wb, branch) ==
    [tag |-> "Union", ty |-> leaf.ty,
     options |-> <<[weight |-> wl, strat |-> leaf],
                   [weight |-> wb, strat |-> branch]>>]

\* Recursive::new
Recursive_new(base, depth, desired_size, expected_branch_size, recurse) ==
    [tag |-> "Recursive", ty |-> base.ty, base |-> base, recurse |-> recurse,
     depth |-> depth, desired_size |-> desired_size,
     expected_branch_size |-> expected_branch_size]

(***************************************************************************)
(* StrategySet: a persistent map from TypeId to a type-erased strategy.    *)
(* Its clone is the same value, and an insertion into one handle is a new  *)
(* value of that handle alone.                                             *)
(***************************************************************************)
EmptySet == << >>

\* im::HashMap::update: a new map with the key set
Update(inner, T, s) ==
    [x \in (DOMAIN inner) \cup {T} |-> IF x = T THEN s ELSE inner[x]]

(***************************************************************************)
(* The state.                                                              *)
(*   cfg          the inputs: the type generated at the top, and per type  *)
(*                the depth, desired size and expected branch size its     *)
(*                builder passes and the type its recursion step requests  *)
(*   status       "idle", "running", "done", or "panicked"                 *)
(*   stack        the call stack of new_tree, the innermost call last      *)
(*   ret          the value the innermost finished call returned           *)
(*   result       the value the generation call produced                   *)
(*   builderCalls how often each builder function has been invoked         *)
(*   handles      the StrategySet each handle of the user holds, or Absent *)
(*   pending      per handle, the get call in progress on it               *)
(*   log          the get calls that have returned, the oldest first       *)
(* A generated value is kept as what the test's depth() and the claims     *)
(* read of it: its type, whether its outermost constructor is the          *)
(* recursive one, its depth(), and per type the largest number of          *)
(* recursive constructors of that type along one path.                     *)
(***************************************************************************)
VARIABLES cfg, status, stack, ret, result, builderCalls, handles, pending, log

vars == <<cfg, status, stack, ret, result, builderCalls, handles, pending, log>>

\* what the generation of a value leaves alone
registry == <<handles, pending, log>>

\* what the calls on a registry handle leave alone
generation == <<status, stack, ret, result>>

\* the builders handed to get: arb_first and arb_second of tests/mutual.rs,
\* the closures |_| Just(First::Zero).sboxed(), |_| Just(Second::Zero).sboxed(),
\* and a builder that calls get on the set it is given:
\*   |set| vec(set.get::<Second, _>(|_| Just(Second::Zero).sboxed()), 0..8)
\*             .prop_map(First::Second).sboxed()
Builders == {"arb_first", "arb_second", "just_first", "just_second", "nested_first"}

\* the type of the strategy a builder returns
BuilderType(f) ==
    IF f \in {"arb_first", "just_first", "nested_first"} THEN "First" ELSE "Second"

\* Recursive.recurse as built by prop_mutually_recursive: the closure
\* holding the captured map and the caller's branch function
Closure(T, set, branch) == [ty |-> T, set |-> set, branch |-> branch]

\* StrategyExt::prop_mutually_recursive
prop_mutually_recursive(base, depth, desired_size, expected_branch_size, set, branch) ==
    Recursive_new(base, depth, desired_size, expected_branch_size,
                  Closure(base.ty, set, branch))

\* tests/mutual.rs arb_first, its three numbers read from cfg
arb_first(set) ==
    prop_mutually_recursive(Just("First"), cfg.depth["First"],
        cfg.desired_size["First"], cfg.expected_branch_size["First"],
        set, "First")

\* arb_second without prop_mutually_recursive: a strategy with no layering
\* left to do
arb_second_base(set) == Just("Second")

\* tests/mutual.rs arb_second
arb_second(set) ==
    prop_mutually_recursive(Just("Second"), cfg.depth["Second"],
        cfg.desired_size["Second"], cfg.expected_branch_size["Second"],
        set, "Second")

BuilderOf(T) == IF T = "First" THEN "arb_first" ELSE "arb_second"

\* f(&mut this): the strategy a builder returns; the get inside
\* nested_first returns the entry of Second, or builds it
Call(f, this) ==
    IF f = "arb_first" THEN arb_first(this)
    ELSE IF f = "arb_second" THEN arb_second(this)
    ELSE IF f = "nested_first"
    THEN Map("First", Vec(IF "Second" \in DOMAIN this THEN this["Second"]
                                                      ELSE Just("Second")))
    ELSE Just(BuilderType(f))

\* the set a builder was given, as the builder leaves it: the builders of
\* tests/mutual.rs only read it, a get inside the builder fills it
CallSet(f, this) ==
    IF f = "nested_first" /\ "Second" \notin DOMAIN this
    THEN Update(this, "Second", Just("Second"))
    ELSE this

\* the builders a builder invokes through get on the set it was given
CallNested(f, this) ==
    IF f = "nested_first" /\ "Second" \notin DOMAIN this
    THEN <<"just_second">> ELSE << >>

\* get with insert in place of or_insert_with: the builder always runs
GetWithAlways(inner, this, T, f) ==
    LET after == Update(inner, T, Call(f, this))
    IN  [inner    |-> after,
         this     |-> CallSet(f, this),
         strat    |-> after[T],
         occupied |-> T \in DOMAIN inner,
         called   |-> <<f>>,
         nested   |-> CallNested(f, this),
         ok       |-> after[T].ty = T]

\* get with the entry stored in the clone, and the clone kept as the set
GetWithInClone(inner, this, T, f) ==
    LET occupied == T \in DOMAIN inner
        after    == IF occupied THEN inner
                    ELSE Update(CallSet(f, this), T, Call(f, this))
    IN  [inner    |-> after,
         this     |-> after,
         strat    |-> after[T],
         occupied |-> occupied,
         called   |-> IF occupied THEN << >> ELSE <<f>>,
         nested   |-> IF occupied THEN << >> ELSE CallNested(f, this),
         ok       |-> after[T].ty = T]

(***************************************************************************)
(* StrategySet::get, lines 136-141, given the clone this of line 135: the  *)
(* entry is looked up in self.inner and, when vacant, filled with          *)
(* f(&mut this).  inner is self.inner afterwards, called the builders      *)
(* invoked, ok whether the downcast to SBoxedStrategy<T> succeeds.         *)
(***************************************************************************)
GetWith(inner, this, T, f) ==
    LET occupied == T \in DOMAIN inner
        after    == IF occupied THEN inner ELSE Update(inner, T, Call(f, this))
    IN  [inner    |-> after,
         this     |-> IF occupied THEN this ELSE CallSet(f, this),
         strat    |-> after[T],
         occupied |-> occupied,
         called   |-> IF occupied THEN << >> ELSE <<f>>,
         nested   |-> IF occupied THEN << >> ELSE CallNested(f, this),
         ok       |-> after[T].ty = T]

\* StrategySet::get as one call: let mut this = self.clone(), then the rest
Get(inner, T, f) == GetWith(inner, inner, T, f)

(***************************************************************************)
(* The branch functions of arb_first and arb_second:                       *)
(*   |set| vec(set.get::<Second, _>(arb_second), 0..8)                     *)
(*             .prop_map(First::Second).sboxed()                           *)
(*   |set| set.get::<First, _>(arb_first).prop_map(Second::First).sboxed() *)
(* with the requested type read from cfg; a step that requests nothing     *)
(* returns the base strategy.                                              *)
(***************************************************************************)
Branch(T, set) ==
    LET U == cfg.requests[T]
        g == Get(set, U, BuilderOf(U))
    IN  IF U = NoType
        THEN [strat |-> Just(T), called |-> << >>, handed |-> set,
              got |-> [tag |-> "none"]]
        ELSE [strat  |-> IF T = "First" THEN Map(T, Vec(g.strat))
                                        ELSE Map(T, g.strat),
              called |-> g.called,
              handed |-> set,
              got    |-> g.strat]

\* the closure with the update forgotten: the step gets the captured map
RecurseNoBridge(recurse, nested) == Branch(recurse.branch, recurse.set)

\* the closure with the approximation stored under the other type's key
RecurseWrongKey(recurse, nested) ==
    Branch(recurse.branch, Update(recurse.set, Other(recurse.ty), nested))

\* the closure writing what the step inserted back into the captured map
RecurseKeepsInserts(recurse, nested) ==
    LET U    == cfg.requests[recurse.branch]
        kept == IF U = NoType THEN recurse.set
                ELSE Get(recurse.set, U, BuilderOf(U)).inner
    IN  Branch(recurse.branch, Update(kept, recurse.ty, nested))

\* the closure of prop_mutually_recursive:
\* move |nested| branch(&mut StrategySet { inner: set.update(T, nested) })
Recurse(recurse, nested) ==
    Branch(recurse.branch, Update(recurse.set, recurse.ty, nested))

\* u64::wrapping_mul
wrapping_mul(a, b) == BigDivMod(BigMul(a, b), Pow2(U64Bits)).r

\* u64::saturating_mul
saturating_mul(a0, b0) ==
    CHOOSE val \in {(
        LET p == BigMul(a, b) IN IF BitLen(p) > U64Bits THEN U64Max ELSE p
        ) : a \in {a0}, b \in {b0}} : TRUE

(***************************************************************************)
(* Generated values.                                                       *)
(***************************************************************************)
NoValue == [ty |-> "none"]

NoNest == [t \in Types |-> 0]

\* First::Zero, Second::Zero
Zero(T) == [ty |-> T, rec |-> FALSE, empty |-> FALSE, depth |-> 0, nest |-> NoNest]

\* a vector of count elements, the deepest of depth d
VecValue(count, d, nest) ==
    [ty |-> "Vec", rec |-> FALSE, empty |-> count = 0, depth |-> d, nest |-> nest]

\* First::Second(v), Second::First(v), with depth() as tests/mutual.rs
\* computes it: one more than the payload's, and 0 over an empty vector
Ctor(T, v) ==
    [ty    |-> T,
     rec   |-> TRUE,
     empty |-> FALSE,
     depth |-> IF v.ty = "Vec" /\ v.empty THEN 0 ELSE v.depth + 1,
     nest  |-> [v.nest EXCEPT ![T] = @ + 1]]

Max(a, b) == IF a < b THEN b ELSE a

(***************************************************************************)
(* Stack frames.                                                           *)
(***************************************************************************)
MaxVecLen == 1

\* the end of the size range 0..8 of vec
VecSizeEnd == 8

Top == stack[Len(stack)]

Below == SubSeq(stack, 1, Len(stack) - 1)

SampleFrame(s) == [kind |-> "sample", strat |-> s]

\* what a frame of Recursive::new_tree remembers of its last layer: the
\* registry handed to the recursion step, the approximation the layer
\* started from, what the step's get returned, the builders it invoked,
\* and the clamped probability
NoBridge ==
    [handed |-> EmptySet, approx |-> [tag |-> "none"], got |-> [tag |-> "none"],
     called |-> << >>, p |-> F64NaN]

Sampling(tag) ==
    /\ status = "running"
    /\ stack # << >>
    /\ ret = NoValue
    /\ Top.kind = "sample"
    /\ Top.strat.tag = tag

InRecursive(pc) ==
    /\ status = "running"
    /\ stack # << >>
    /\ Top.kind = "recursive"
    /\ Top.pc = pc

RECURSIVE CountCalls(_, _)
CountCalls(calls, called) ==
    IF called = << >> THEN calls
    ELSE CountCalls([calls EXCEPT ![Head(called)] = @ + 1], Tail(called))

(***************************************************************************)
(* The test harness: arb_first(&mut Default::default()), or arb_second,    *)
(* builds the strategy and one value is generated from it.                 *)
(***************************************************************************)
Generate ==
    /\ status = "idle"
    /\ status' = "running"
    /\ stack' = <<SampleFrame(Call(BuilderOf(cfg.top), EmptySet))>>
    /\ builderCalls' = CountCalls(builderCalls, <<BuilderOf(cfg.top)>>)
    /\ UNCHANGED <<cfg, ret, result>>
    /\ UNCHANGED registry

(***************************************************************************)
(* Recursive::new_tree.                                                    *)
(***************************************************************************)
\* lines 65-66: the call starts
NewTree ==
    /\ Sampling("Recursive")
    /\ stack' = Below \o
         <<[kind |-> "recursive", gen |-> Top.strat, pc |-> "probabilities",
            i |-> 0, k2 |-> BigMulSmall(Top.strat.expected_branch_size, 2),
            branch_probabilities |-> << >>, strat |-> [tag |-> "none"],
            steps |-> 0, bridge |-> NoBridge]>>
    /\ UNCHANGED <<cfg, status, ret, result, builderCalls>>
    /\ UNCHANGED registry

\* the loop written 0..=self.depth
IterationsInclusive(gen) == gen.depth + 1

\* line 67: the number of iterations of for _ in 0..self.depth
Iterations(gen) == gen.depth

\* lines 67-70: one iteration of the first loop
PushProbability ==
    /\ InRecursive("probabilities")
    /\ Top.i < Iterations(Top.gen)
    /\ stack' = Below \o
         <<[Top EXCEPT
              !.branch_probabilities =
                  Append(@, F64Div(F64FromU32(Top.gen.desired_size),
                                   F64FromU64(Top.k2))),
              !.k2 = saturating_mul(@, BigMulSmall(Top.gen.expected_branch_size, 2)),
              !.i = @ + 1]>>
    /\ UNCHANGED <<cfg, status, ret, result, builderCalls>>
    /\ UNCHANGED registry

\* line 72: the first loop is over
CloneBase ==
    /\ InRecursive("probabilities")
    /\ Top.i >= Iterations(Top.gen)
    /\ stack' = Below \o <<[Top EXCEPT !.pc = "layers", !.strat = Top.gen.base]>>
    /\ UNCHANGED <<cfg, status, ret, result, builderCalls>>
    /\ UNCHANGED registry

\* the layer without the clamp of line 79
LayerOfNoClamp(gen, strat, branch_probability) ==
    LET recursed == Recurse(gen.recurse, strat)
        p        == branch_probability
        w        == float_to_weight(p)
    IN  [ok     |-> w.ok,
         p      |-> p,
         strat  |-> Union(w.neg, strat, w.pos, recursed.strat),
         called |-> recursed.called,
         bridge |-> [handed |-> recursed.handed, approx |-> strat,
                     got |-> recursed.got, called |-> recursed.called,
                     p |-> p]]

\* the layer with the pair of float_to_weight taken in the other order
LayerOfSwapped(gen, strat, branch_probability) ==
    LET recursed == Recurse(gen.recurse, strat)
        p        == F64Min(branch_probability, F64Lit09)
        w        == float_to_weight(p)
    IN  [ok     |-> w.ok,
         p      |-> p,
         strat  |-> Union(w.pos, strat, w.neg, recursed.strat),
         called |-> recursed.called,
         bridge |-> [handed |-> recursed.handed, approx |-> strat,
                     got |-> recursed.got, called |-> recursed.called,
                     p |-> p]]

\* the layer lines 74-85 build from the approximation strat and the popped
\* probability: ok = FALSE when float_to_weight panics
LayerOf(gen, strat, branch_probability) ==
    LET recursed == Recurse(gen.recurse, strat)
        p        == F64Min(branch_probability, F64Lit09)
        w        == float_to_weight(p)
    IN  [ok     |-> w.ok,
         p      |-> p,
         strat  |-> Union(w.neg, strat, w.pos, recursed.strat),
         called |-> recursed.called,
         bridge |-> [handed |-> recursed.handed, approx |-> strat,
                     got |-> recursed.got, called |-> recursed.called,
                     p |-> p]]

\* the second loop taking the probabilities from the front, oldest first
LayerFromFront ==
    /\ InRecursive("layers")
    /\ Top.branch_probabilities # << >>
    /\ LET l == LayerOf(Top.gen, Top.strat, Head(Top.branch_probabilities))
       IN  /\ builderCalls' = CountCalls(builderCalls, l.called)
           /\ IF l.ok
              THEN /\ stack' = Below \o
                        <<[Top EXCEPT
                             !.branch_probabilities = Tail(@),
                             !.strat = l.strat,
                             !.steps = @ + 1,
                             !.bridge = l.bridge]>>
                   /\ UNCHANGED status
              ELSE /\ stack' = << >>
                   /\ status' = "panicked"
    /\ UNCHANGED <<cfg, ret, result>>
    /\ UNCHANGED registry

\* lines 73-86: one iteration of the second loop
Layer ==
    /\ InRecursive("layers")
    /\ Top.branch_probabilities # << >>
    /\ LET n == Len(Top.branch_probabilities)
           l == LayerOf(Top.gen, Top.strat, Top.branch_probabilities[n])
       IN  /\ builderCalls' = CountCalls(builderCalls, l.called)
           /\ IF l.ok
              THEN /\ stack' = Below \o
                        <<[Top EXCEPT
                             !.branch_probabilities = SubSeq(@, 1, n - 1),
                             !.strat = l.strat,
                             !.steps = @ + 1,
                             !.bridge = l.bridge]>>
                   /\ UNCHANGED status
              ELSE /\ stack' = << >>
                   /\ status' = "panicked"
    /\ UNCHANGED <<cfg, ret, result>>
    /\ UNCHANGED registry

\* line 88: strat.new_tree(runner)
Delegate ==
    /\ InRecursive("layers")
    /\ Top.branch_probabilities = << >>
    /\ stack' = Below \o <<SampleFrame(Top.strat)>>
    /\ UNCHANGED <<cfg, status, ret, result, builderCalls>>
    /\ UNCHANGED registry

(***************************************************************************)
(* new_tree of proptest's own strategies.                                  *)
(***************************************************************************)
\* a union picks one option, each with the chance its weight gives it
SampleUnion ==
    /\ Sampling("Union")
    /\ \E i \in 1..Len(Top.strat.options) :
          /\ Top.strat.options[i].weight > 0
          /\ stack' = Below \o <<SampleFrame(Top.strat.options[i].strat)>>
    /\ UNCHANGED <<cfg, status, ret, result, builderCalls>>
    /\ UNCHANGED registry

SampleJust ==
    /\ Sampling("Just")
    /\ stack' = Below
    /\ ret' = Zero(Top.strat.ty)
    /\ UNCHANGED <<cfg, status, result, builderCalls>>
    /\ UNCHANGED registry

SampleMap ==
    /\ Sampling("Map")
    /\ stack' = Below \o <<[kind |-> "map", ty |-> Top.strat.ty],
                           SampleFrame(Top.strat.source)>>
    /\ UNCHANGED <<cfg, status, ret, result, builderCalls>>
    /\ UNCHANGED registry

MapReturn ==
    /\ status = "running"
    /\ stack # << >>
    /\ Top.kind = "map"
    /\ ret # NoValue
    /\ stack' = Below
    /\ ret' = Ctor(Top.ty, ret)
    /\ UNCHANGED <<cfg, status, result, builderCalls>>
    /\ UNCHANGED registry

\* a vector strategy picks a size in its range, then generates the elements
SampleVec ==
    /\ Sampling("Vec")
    /\ \E n \in 0..MaxVecLen :
          /\ n < VecSizeEnd
          /\ IF n = 0
             THEN /\ stack' = Below
                  /\ ret' = VecValue(0, 0, NoNest)
             ELSE /\ stack' = Below \o
                        <<[kind |-> "vec", element |-> Top.strat.element,
                           remaining |-> n, count |-> 0, depth |-> 0,
                           nest |-> NoNest],
                          SampleFrame(Top.strat.element)>>
                  /\ UNCHANGED ret
    /\ UNCHANGED <<cfg, status, result, builderCalls>>
    /\ UNCHANGED registry

VecCollect ==
    /\ status = "running"
    /\ stack # << >>
    /\ Top.kind = "vec"
    /\ ret # NoValue
    /\ LET d    == Max(Top.depth, ret.depth)
           nest == [t \in Types |-> Max(Top.nest[t], ret.nest[t])]
       IN  IF Top.remaining = 1
           THEN /\ stack' = Below
                /\ ret' = VecValue(Top.count + 1, d, nest)
           ELSE /\ stack' = Below \o
                      <<[Top EXCEPT !.remaining = @ - 1, !.count = @ + 1,
                                    !.depth = d, !.nest = nest],
                        SampleFrame(Top.element)>>
                /\ ret' = NoValue
    /\ UNCHANGED <<cfg, status, result, builderCalls>>
    /\ UNCHANGED registry

\* the outermost new_tree has returned
Finish ==
    /\ status = "running"
    /\ stack = << >>
    /\ ret # NoValue
    /\ status' = "done"
    /\ result' = ret
    /\ ret' = NoValue
    /\ UNCHANGED <<cfg, stack, builderCalls>>
    /\ UNCHANGED registry

Next ==
    \/ Generate
    \/ NewTree
    \/ PushProbability
    \/ CloneBase
    \/ Layer
    \/ Delegate
    \/ SampleUnion
    \/ SampleJust
    \/ SampleMap
    \/ MapReturn
    \/ SampleVec
    \/ VecCollect
    \/ Finish

(***************************************************************************)
(* The user's calls on StrategySet handles.  get borrows its handle        *)
(* mutably from line 135 to its return, so no other call on that handle    *)
(* runs in between; calls on other handles, from other threads, may.       *)
(***************************************************************************)
MaxGets == 3

\* the handles the user holds: let mut a = StrategySet::default(), and
\* b = a.clone()
Handles == {"a", "b"}

\* a handle not created yet
Absent == [live |-> FALSE, inner |-> EmptySet]

NoCall == [ty |-> "none"]

\* a map shared by reference: the handles cloned from one another and not
\* changed since see the insertion too
StoreShared(hs, h, inner) ==
    [x \in DOMAIN hs |->
        IF hs[x].live /\ hs[x].inner = hs[h].inner
        THEN [hs[x] EXCEPT !.inner = inner] ELSE hs[x]]

\* self.inner of handle h becomes inner: the map is persistent, the other
\* handles keep the value they hold
Store(hs, h, inner) == [hs EXCEPT ![h].inner = inner]

\* get::<T, _>(f) on handle h, line 135: let mut this = self.clone()
GetBegin(h, T, f) ==
    /\ handles[h].live
    /\ pending[h] = NoCall
    /\ Len(log) + Cardinality({x \in Handles : pending[x] # NoCall}) < MaxGets
    /\ BuilderType(f) = T
    /\ pending' = [pending EXCEPT ![h] = [ty |-> T, f |-> f, this |-> handles[h].inner]]
    /\ UNCHANGED <<cfg, builderCalls, handles, log>>
    /\ UNCHANGED generation

\* lines 136-141: the entry is looked up or built, and its clone returned
GetEnd(h) ==
    /\ pending[h] # NoCall
    /\ LET g == GetWith(handles[h].inner, pending[h].this, pending[h].ty, pending[h].f)
       IN  /\ handles' = Store(handles, h, g.inner)
           /\ builderCalls' = CountCalls(builderCalls, g.called \o g.nested)
           /\ log' = Append(log, [handle |-> h, ty |-> pending[h].ty,
                                  f |-> pending[h].f, occupied |-> g.occupied,
                                  called |-> g.called, strat |-> g.strat,
                                  ok |-> g.ok,
                                  before |-> handles[h].inner,
                                  after |-> g.inner,
                                  given |-> pending[h].this,
                                  left |-> g.this])
    /\ pending' = [pending EXCEPT ![h] = NoCall]
    /\ UNCHANGED cfg
    /\ UNCHANGED generation

\* let h2 = h.clone()
Clone(h, h2) ==
    /\ handles[h].live
    /\ pending[h] = NoCall
    /\ ~handles[h2].live
    /\ handles' = [handles EXCEPT ![h2] = handles[h]]
    /\ UNCHANGED <<cfg, builderCalls, pending, log>>
    /\ UNCHANGED generation

NextRegistry ==
    \/ \E h \in Handles, T \in Types, f \in Builders : GetBegin(h, T, f)
    \/ \E h \in Handles : GetEnd(h)
    \/ \E h \in Handles, h2 \in Handles : Clone(h, h2)

\* Recursive::new_tree alone, its recursion step requesting nothing
NextProb ==
    \/ Generate
    \/ NewTree
    \/ PushProbability
    \/ CloneBase
    \/ Layer
    \/ Delegate
    \/ SampleUnion
    \/ SampleJust
    \/ Finish

(***************************************************************************)
(* The inputs.                                                             *)
(***************************************************************************)
\* tests/mutual.rs: arb_first is (5, 32, 8), arb_second is (3, 32, 1)
TestCfg(top) ==
    [top     |-> top,
     depth   |-> [t \in Types |-> IF t = "First" THEN 5 ELSE 3],
     desired_size |-> [t \in Types |-> FromNat(32)],
     expected_branch_size |->
         [t \in Types |-> IF t = "First" THEN FromNat(8) ELSE FromNat(1)],
     requests |-> [t \in Types |-> IF t = "First" THEN "Second" ELSE "First"]]

InitWith(c) ==
    /\ cfg = c
    /\ status = "idle"
    /\ stack = << >>
    /\ ret = NoValue
    /\ result = NoValue
    /\ builderCalls = [f \in Builders |-> 0]
    /\ handles = [h \in Handles |-> IF h = "a" THEN [live |-> TRUE, inner |-> EmptySet] ELSE Absent]
    /\ pending = [h \in Handles |-> NoCall]
    /\ log = << >>

InitFirst == InitWith(TestCfg("First"))

InitSecond == InitWith(TestCfg("Second"))

SpecFirst == InitFirst /\ [][Next]_vars

SpecSecond == InitSecond /\ [][Next]_vars

MaxDepth == 2

\* (desired size, expected branch size): the pairs of the test, a zero
\* size, a zero branch size, and both zero
ParamChoices ==
    {<<FromNat(32), FromNat(8)>>, <<FromNat(32), FromNat(1)>>,
     <<FromNat(0), FromNat(1)>>, <<FromNat(1), FromNat(0)>>,
     <<FromNat(0), FromNat(0)>>}

Cfgs ==
    {[top     |-> top,
      depth   |-> d,
      desired_size |-> [t \in Types |-> p[1]],
      expected_branch_size |-> [t \in Types |-> p[2]],
      requests |-> r] :
        top \in Types, d \in [Types -> 0..MaxDepth], p \in ParamChoices,
        r \in [Types -> Types]}

Init == \E c \in Cfgs : InitWith(c)

Spec == Init /\ [][Next]_vars

SpecRegistry == InitFirst /\ [][NextRegistry]_vars

ProbDepth == 66

\* large and small sizes and branch sizes, and the zero ones
ProbParams ==
    ParamChoices \cup
    {<<U32Max, FromNat(1)>>, <<FromNat(1), U32Max>>, <<U32Max, U32Max>>,
     <<FromNat(1), FromNat(1)>>, <<FromNat(19), FromNat(10)>>}

ProbCfgs ==
    {[top     |-> "First",
      depth   |-> [t \in Types |-> d],
      desired_size |-> [t \in Types |-> p[1]],
      expected_branch_size |-> [t \in Types |-> p[2]],
      requests |-> [t \in Types |-> NoType]] :
        d \in {1, ProbDepth}, p \in ProbParams}

InitProb == \E c \in ProbCfgs : InitWith(c)

SpecProb == InitProb /\ [][NextProb]_vars

(***************************************************************************)
(* The claims.                                                             *)
(***************************************************************************)
Frames == {stack[i] : i \in 1..Len(stack)}

RecursiveFrames == {fr \in Frames : fr.kind = "recursive"}

\* the frames of Recursive::new_tree that have built a layer
LayerFrames == {fr \in RecursiveFrames : fr.steps > 0}

\* C1: every First value generated from arb_first (5, 32, 8) on an empty
\* StrategySet has depth() <= 8.
C1_FirstDepthAtMost8 ==
    (status = "done" /\ cfg.top = "First") => result.depth <= 8

\* C2: every Second value generated from arb_second (3, 32, 1) on an empty
\* StrategySet has depth() <= 8.
C2_SecondDepthAtMost8 ==
    status = "done" => (result.ty = "Second" /\ result.depth <= 8)

\* a Second value of the largest depth() the example reaches
C2_DeepSecond ==
    status = "done" /\ cfg.top = "Second" /\ result.rec /\ result.depth = 6

\* C3: a generator of depth D is unrolled into exactly D layers, and a
\* value generated from it nests at most D applications of its recursion
\* step (recursive constructors of its type) along any path.
C3_DepthBound ==
    /\ \A fr \in RecursiveFrames :
          fr.pc = "layers" =>
              fr.steps + Len(fr.branch_probabilities) = fr.gen.depth
    /\ status = "done" => result.nest[cfg.top] <= cfg.depth[cfg.top]

\* a value that nests as many recursion steps as the depth allows
C3_FullDepth ==
    /\ status = "done"
    /\ cfg.depth[cfg.top] >= 2
    /\ result.nest[cfg.top] = cfg.depth[cfg.top]

\* C4: on one StrategySet, the first get of a type invokes its builder
\* exactly once and stores the result; a later get of that type invokes no
\* builder and returns an equivalent strategy.
C4_Memoization ==
    \A i \in 1..Len(log) :
        /\ log[i].called = (IF log[i].occupied THEN << >> ELSE <<log[i].f>>)
        /\ \A j \in (i + 1)..Len(log) :
              (log[j].handle = log[i].handle /\ log[j].ty = log[i].ty)
                  => (log[j].called = << >> /\ log[j].strat = log[i].strat)

\* two gets of one type on one set, the second with another builder
C4_SecondGet ==
    \E i, j \in 1..Len(log) :
        /\ i < j
        /\ log[i].handle = log[j].handle
        /\ log[i].ty = log[j].ty
        /\ log[i].f # log[j].f
        /\ Call(log[j].f, EmptySet) # log[j].strat

\* the number of layers a strategy is built of
RECURSIVE Layers(_)
Layers(s) == IF s.tag = "Union" THEN 1 + Layers(s.options[1].strat) ELSE 0

\* C5: the registry handed to the recursion step of T's generator holds,
\* under T, the approximation built so far (the base at the first layer, the
\* previous layer's choice afterwards); a get of T inside the step returns
\* it and invokes no builder.
C5_Bridge ==
    \A fr \in LayerFrames :
        LET T == fr.gen.ty
            b == fr.bridge
        IN  /\ T \in DOMAIN b.handed
            /\ b.handed[T] = b.approx
            /\ Layers(b.approx) = fr.steps - 1
            /\ fr.steps = 1 => b.approx = fr.gen.base
            /\ fr.steps > 1 => b.approx.options[1].strat.ty = T
            /\ fr.strat.options[1].strat = b.approx
            /\ cfg.requests[T] = T
                   => (b.got = b.approx /\ b.called = << >>)

\* a second layer whose step asks for its own type
C5_SelfRequest ==
    \E fr \in LayerFrames :
        /\ fr.steps >= 2
        /\ cfg.requests[fr.gen.ty] = fr.gen.ty
        /\ fr.bridge.got.tag = "Union"

\* C6: a clone of a StrategySet is independent of the original: an entry
\* inserted through one of them never shows in, and never changes, the
\* other; a set changes only by a get on that very set.
C6_CloneIndependent ==
    [][\A h \in Handles :
          (handles[h].live /\ handles'[h] # handles[h])
              => /\ pending[h] # NoCall
                 /\ Len(log') = Len(log) + 1
                 /\ log'[Len(log')].handle = h]_vars

\* a set and its clone, each with an entry the other one lacks
C6_Diverged ==
    /\ handles["a"].live
    /\ handles["b"].live
    /\ DOMAIN handles["a"].inner \ DOMAIN handles["b"].inner # {}
    /\ DOMAIN handles["b"].inner \ DOMAIN handles["a"].inner # {}

\* C7: with depth 0 no layer is built and the recursion step is never
\* invoked, whatever the two sizes: the generator is its base, and every
\* value is a base value.
C7_DepthZero ==
    /\ \A fr \in RecursiveFrames :
          fr.gen.depth = 0
              => /\ fr.steps = 0
                 /\ fr.branch_probabilities = << >>
                 /\ fr.bridge = NoBridge
                 /\ fr.pc = "layers" => fr.strat = fr.gen.base
    /\ cfg.depth[cfg.top] = 0
          => /\ status # "panicked"
             /\ status = "done" => result = Zero(cfg.top)
             /\ \A f \in Builders :
                   builderCalls[f] = (IF f = BuilderOf(cfg.top) THEN 1 ELSE 0)
                   \/ status = "idle"

\* a value generated at depth 0 with non-trivial sizes
C7_BaseValue ==
    /\ status = "done"
    /\ cfg.depth[cfg.top] = 0
    /\ cfg.desired_size[cfg.top] = FromNat(32)
    /\ cfg.expected_branch_size[cfg.top] = FromNat(8)
    /\ result = Zero(cfg.top)

\* C8: with desired_size 0 every branch probability is 0, generation yields
\* base values only, and no error occurs (expected_branch_size 0 apart,
\* which is C9's case).
C8_ZeroSizeBaseOnly ==
    (cfg.desired_size[cfg.top] = FromNat(0)
        /\ cfg.expected_branch_size[cfg.top] # FromNat(0))
        => /\ status # "panicked"
           /\ \A fr \in RecursiveFrames :
                 \A i \in 1..Len(fr.branch_probabilities) :
                     fr.branch_probabilities[i].cls = "zero"
           /\ status = "done" => ~result.rec

\* C9 as stated: with expected_branch_size 0 the branch probabilities are
\* driven to 0 and generation yields base values only, without failing.
C9_ZeroBranchBaseOnly ==
    cfg.expected_branch_size[cfg.top] = FromNat(0)
        => /\ status # "panicked"
           /\ \A fr \in LayerFrames : fr.bridge.p.cls = "zero"
           /\ status = "done" => ~result.rec

\* C9: with expected_branch_size 0 every k_i is 0 and every p_i is S / 0,
\* infinite or NaN; min(0.9) makes it 0.9, so generation does not fail and
\* every layer picks its recursive alternative with weight 0.9.
C9_ZeroBranchClamped ==
    /\ \A fr \in RecursiveFrames :
          fr.gen.expected_branch_size = FromNat(0)
              => /\ fr.k2 = FromNat(0)
                 /\ \A i \in 1..Len(fr.branch_probabilities) :
                       fr.branch_probabilities[i] =
                           (IF fr.gen.desired_size = FromNat(0)
                            THEN F64NaN ELSE F64Inf)
                 /\ fr.steps > 0
                       => /\ fr.bridge.p = F64Lit09
                          /\ fr.strat.options[2].weight = 1932735283
                          /\ fr.strat.options[1].weight = 214748365
    /\ cfg.expected_branch_size[cfg.top] = FromNat(0) => status # "panicked"

\* a recursive value generated with expected_branch_size 0
C9_RecursiveValue ==
    /\ status = "done"
    /\ cfg.expected_branch_size[cfg.top] = FromNat(0)
    /\ cfg.depth[cfg.top] = MaxDepth
    /\ result.rec
    /\ result.nest[cfg.top] = MaxDepth

\* p <= q over the f64 values that are numbers
F64Leq(p, q) == p.cls \in {"zero", "finite"} /\ ~F64Less(q, p)

\* C10: the probability that weights a layer is at least 0 and at most
\* 0.9, and the non-recursive alternative of every layer has a weight above
\* 0, for all depths and sizes.
C10_Clamp ==
    \A fr \in LayerFrames :
        /\ F64Leq(F64Zero, fr.bridge.p)
        /\ F64Leq(fr.bridge.p, F64Lit09)
        /\ fr.strat.options[1].weight > 0
        /\ fr.strat.options[1].strat = fr.bridge.approx
        /\ BigAdd(FromNat(fr.strat.options[1].weight),
                  FromNat(fr.strat.options[2].weight)) = WEIGHT_BASE

\* the last of many layers of a generator with desired_size u32::MAX and
\* expected_branch_size 1, its probability clamped
C10_Clamped ==
    \E fr \in LayerFrames :
        /\ fr.gen.desired_size = U32Max
        /\ fr.gen.expected_branch_size = FromNat(1)
        /\ fr.gen.depth = ProbDepth
        /\ fr.steps = ProbDepth
        /\ fr.bridge.p = F64Lit09
        /\ F64Less(F64Lit09, F64Div(F64FromU32(U32Max), F64FromU64(FromNat(2))))

\* C11: from one empty registry, over the whole generation the builder of
\* each recursive type is invoked at most once, every later request being
\* served from the registry.
C11_BuiltOnce == \A f \in Builders : builderCalls[f] <= 1

\* the program always takes its next step
SpecFair == Init /\ [][Next]_vars /\ WF_vars(Next)

\* the constructors under construction: the prop_map frames of the stack
MapFrames == {i \in 1..Len(stack) : stack[i].kind = "map"}

\* C12: building the top-level generator on an empty registry and one
\* generation call on it terminate, and the chain of nested recursion-step
\* results is finite: never more constructors are under construction than
\* the depths of the group allow.
C12_Terminates ==
    /\ [](Cardinality(MapFrames)
              <= cfg.depth[cfg.top] * (1 + cfg.depth[Other(cfg.top)]))
    /\ <>(status \in {"done", "panicked"})
    /\ (cfg.desired_size[cfg.top] # FromNat(0)) => <>(status = "done")

\* a generation that ended after nesting both types
C12_Ended ==
    /\ status = "done"
    /\ stack = << >>
    /\ cfg.requests[cfg.top] # cfg.top
    /\ result.nest[cfg.top] >= 2
    /\ result.nest[Other(cfg.top)] >= 2

\* the example of tests/mutual.rs, from arb_first or from arb_second
SpecExample == (InitFirst \/ InitSecond) /\ [][Next]_vars

\* C13: in the example the recursive alternative of the outermost layer of
\* each generator has a weight above 0 (p_1 is 0.9 for both), so First::Second
\* and Second::First values are producible.
C13_RecursiveReachable ==
    \A fr \in LayerFrames :
        fr.steps = fr.gen.depth
            => /\ fr.bridge.p = F64Lit09
               /\ fr.strat.options[2].weight = 1932735283
               /\ fr.strat.options[2].weight > 0
               /\ fr.strat.options[2].strat.tag = "Map"
               /\ fr.strat.options[2].strat.ty = fr.gen.ty

\* a First::Second value that holds a Second::First value
C13_BothRecursive ==
    /\ status = "done"
    /\ result.ty = "First"
    /\ result.rec
    /\ result.nest["Second"] >= 1

\* C14: a get of a type the registry lacks invokes the builder on a clone
\* without the type, and leaves the registry with its prior entries and one
\* new entry, the builder's result; what the builder inserted into the clone
\* does not show in the registry, and the clone does not gain the type.  A
\* get of a type the registry holds leaves the registry unchanged.
C14_GetFrame ==
    /\ \A i \in 1..Len(log) :
          LET e == log[i]
              T == e.ty
          IN  /\ e.given = e.before
              /\ IF T \in DOMAIN e.before
                 THEN /\ e.after = e.before
                      /\ e.left = e.given
                      /\ e.called = << >>
                 ELSE /\ T \notin DOMAIN e.given
                      /\ T \notin DOMAIN e.left
                      /\ e.called = <<e.f>>
                      /\ DOMAIN e.after = DOMAIN e.before \cup {T}
                      /\ \A k \in DOMAIN e.before : e.after[k] = e.before[k]
                      /\ e.after[T] = Call(e.f, e.given)
                      /\ e.strat = e.after[T]
    /\ \A h \in Handles :
          \A i \in 1..Len(log) :
              (log[i].handle = h
                  /\ \A j \in (i + 1)..Len(log) : log[j].handle # h)
                  => handles[h].inner = log[i].after

\* a get whose builder inserted another type into its clone
C14_NestedInsert ==
    \E i \in 1..Len(log) :
        /\ log[i].f = "nested_first"
        /\ ~log[i].occupied
        /\ "Second" \in DOMAIN log[i].left
        /\ "Second" \notin DOMAIN log[i].after
        /\ DOMAIN log[i].after = {"First"}

RECURSIVE BigPow(_, _)
\* a^n, or a smaller power of a already above u64::MAX
BigPow(a, n) ==
    IF n = 0 THEN <<1>>
    ELSE LET q == BigPow(a, n - 1)
         IN  IF BitLen(q) > U64Bits THEN q ELSE BigMul(a, q)

\* k_i = min((2B)^i, u64::MAX) and p_i = S / k_i, as the specification
\* states them
KSpec(B, i) == BigMin(BigPow(BigMulSmall(B, 2), i), U64Max)

PSpec(S, B, i) == F64Div(F64FromU32(S), F64FromU64(KSpec(B, i)))

RECURSIVE Inner(_, _)
\* the approximation n layers below s
Inner(s, n) == IF n = 0 THEN s ELSE Inner(s.options[1].strat, n - 1)

\* the layers built so far by a frame are in order: the l-th from the base
\* is built on the l - 1 before it with the probability p_(D-l+1)
LayersInOrder(fr) ==
    LET D == fr.gen.depth
        S == fr.gen.desired_size
        B == fr.gen.expected_branch_size
        j == fr.steps
    IN  /\ Len(fr.branch_probabilities) = D - j
        /\ \A i \in 1..(D - j) : fr.branch_probabilities[i] = PSpec(S, B, i)
        /\ Layers(fr.strat) = j
        /\ Inner(fr.strat, j) = fr.gen.base
        /\ \A l \in 1..j :
              LET s == Inner(fr.strat, j - l)
                  w == float_to_weight(F64Min(PSpec(S, B, D - l + 1), F64Lit09))
              IN  /\ s.options[2].weight = w.pos
                  /\ s.options[1].weight = w.neg
                  /\ s.options[2].strat.ty = fr.gen.ty
        /\ j >= 1 => /\ fr.bridge.approx = Inner(fr.strat, 1)
                     /\ fr.bridge.p = F64Min(PSpec(S, B, D - j + 1), F64Lit09)
        /\ (j >= 1 /\ j = D)
              => fr.bridge.p =
                     F64Min(F64Div(F64FromU32(S), F64FromU64(BigMulSmall(B, 2))),
                            F64Lit09)

\* C15: a generation with depth D invokes the recursion step D times, the
\* j-th time on the approximation of the j - 1 iterations before (the base
\* first) and with the probability p_(D-j+1), so the innermost layer has p_D
\* and the outermost p_1 = min(S / 2B, 0.9); the generator sampled is the
\* one the D-th iteration built.
C15_LayerOrder ==
    /\ [](\A fr \in RecursiveFrames : fr.pc = "layers" => LayersInOrder(fr))
    /\ [][(/\ stack # << >>
           /\ Top.kind = "recursive"
           /\ Len(stack') = Len(stack)
           /\ stack'[Len(stack')].kind = "sample")
              => /\ Top.steps = Top.gen.depth
                 /\ stack'[Len(stack')].strat = Top.strat]_vars

\* two layers with different probabilities, the inner one the smaller
C15_TwoLayers ==
    \E fr \in LayerFrames :
        /\ fr.steps = 2
        /\ fr.gen.depth = 2
        /\ fr.strat.options[2].weight = 1932735283
        /\ Inner(fr.strat, 1).options[2].weight = 268435456

\* C16: k_1 = 2B, k_(i+1) = k_i * 2B never wraps and never aborts:
\* k_i = min((2B)^i, u64::MAX), so k_i does not decrease, stays at u64::MAX
\* once there, and p_i = S / k_i does not increase.
C16_Saturating ==
    /\ [](\A fr \in RecursiveFrames :
             LET S == fr.gen.desired_size
                 B == fr.gen.expected_branch_size
                 n == Len(fr.branch_probabilities)
             IN  /\ BigLeq(fr.k2, U64Max)
                 /\ fr.pc = "probabilities"
                       => /\ n = fr.i
                          /\ fr.k2 = KSpec(B, n + 1)
                          /\ n >= 1 => fr.branch_probabilities[n] = PSpec(S, B, n)
                 /\ \A i \in 1..(n - 1) :
                       ~F64Less(fr.branch_probabilities[i],
                                fr.branch_probabilities[i + 1]))
    /\ [][(/\ stack # << >>
           /\ Top.kind = "recursive"
           /\ Len(stack') = Len(stack)
           /\ stack'[Len(stack')].kind = "recursive")
              => /\ BigLeq(Top.k2, stack'[Len(stack')].k2)
                 /\ Top.k2 = U64Max => stack'[Len(stack')].k2 = U64Max]_vars

\* k has reached u64::MAX with expected_branch_size 1: k_64 = 2^64 saturates,
\* and p_64 = p_65
C16_Saturated ==
    \E fr \in RecursiveFrames :
        /\ fr.gen.expected_branch_size = FromNat(1)
        /\ fr.gen.desired_size = U32Max
        /\ fr.pc = "probabilities"
        /\ fr.k2 = U64Max
        /\ Len(fr.branch_probabilities) >= 65
        /\ fr.branch_probabilities[64] = fr.branch_probabilities[65]
        /\ F64Less(fr.branch_probabilities[64], fr.branch_probabilities[63])

\* every entry of a registry is a strategy of its key's type
Typed(set) == \A k \in DOMAIN set : set[k].ty = k

RECURSIVE WellTyped(_)
\* every registry a strategy holds, at any depth, is typed
WellTyped(s) ==
    IF s.tag = "Recursive"
    THEN /\ WellTyped(s.base)
         /\ Typed(s.recurse.set)
         /\ \A k \in DOMAIN s.recurse.set : WellTyped(s.recurse.set[k])
    ELSE IF s.tag = "Union"
    THEN \A i \in 1..Len(s.options) : WellTyped(s.options[i].strat)
    ELSE IF s.tag = "Map" THEN WellTyped(s.source)
    ELSE IF s.tag = "Vec" THEN WellTyped(s.element)
    ELSE TRUE

\* C17: in every registry reached through get, clone and the update of
\* prop_mutually_recursive, the entry under the key of T is a strategy of T,
\* so the downcast in get never fails.
C17_TypeSafe ==
    /\ \A fr \in RecursiveFrames :
          /\ WellTyped(fr.gen)
          /\ fr.steps > 0
                => /\ Typed(fr.bridge.handed)
                   /\ WellTyped(fr.strat)
                   /\ cfg.requests[fr.gen.ty] # NoType
                         => LET U == cfg.requests[fr.gen.ty]
                                g == Get(fr.bridge.handed, U, BuilderOf(U))
                            IN  /\ g.ok
                                /\ Typed(g.inner)
                                /\ g.strat = fr.bridge.got
                                /\ g.strat.ty = U
    /\ \A fr \in Frames : fr.kind = "sample" => WellTyped(fr.strat)
    /\ \A h \in Handles : Typed(handles[h].inner)

\* a step that asked a registry of two entries for the other type
C17_TwoEntries ==
    \E fr \in LayerFrames :
        /\ DOMAIN fr.bridge.handed = Types
        /\ cfg.requests[fr.gen.ty] = Other(fr.gen.ty)
        /\ fr.bridge.called = << >>
        /\ fr.bridge.got.ty = Other(fr.gen.ty)

\* C18 as stated: the layering of a generator U that T's recursion step
\* gets runs completely before the get returns, inside T's layer: no
\* generator is layered once the top generator's layers are built.
C18_LayeredInsideGet ==
    \A i \in 1..Len(stack) : stack[i].kind = "recursive" => i = 1

\* C18: the get in T's recursion step builds U's generator without
\* invoking U's recursion step: prop_mutually_recursive only stores the base,
\* the closure and the three numbers.  U's layering runs in new_tree, each
\* time a value is generated from U's generator, which is after all layers
\* of T's generator are built and while a value of T is being generated.
C18_LayeredWhenSampled ==
    /\ \A fr \in LayerFrames :
          fr.bridge.called # << >>
              => /\ fr.bridge.got.tag = "Recursive"
                 /\ fr.bridge.got.ty = cfg.requests[fr.gen.ty]
                 /\ fr.bridge.got.depth = cfg.depth[fr.bridge.got.ty]
    /\ \A i \in 2..Len(stack) :
          stack[i].kind = "recursive"
              => /\ stack[1].kind = "map"
                 /\ stack[1].ty = cfg.top
                 /\ stack[i - 1].kind \in {"map", "vec"}

\* the generator of the other type, all its layers built, under the
\* constructor of a value of the top type
C18_NestedLayering ==
    /\ Len(stack) >= 2
    /\ stack[1].kind = "map"
    /\ Top.kind = "recursive"
    /\ Top.gen.ty = Other(cfg.top)
    /\ Top.gen.depth >= 2
    /\ Top.steps = Top.gen.depth

\* C19: prop_mutually_recursive and the generations from its generator
\* leave the registry passed in alone; at every layer the registry handed to
\* the recursion step is the captured contents with T's entry replaced, so
\* what the step inserted at one layer is not there at the next.
C19_CapturedFrame ==
    /\ [](\A fr \in LayerFrames :
             LET T   == fr.gen.ty
                 set == fr.gen.recurse.set
                 b   == fr.bridge
             IN  /\ DOMAIN b.handed = DOMAIN set \cup {T}
                 /\ \A k \in DOMAIN set \ {T} : b.handed[k] = set[k]
                 /\ b.handed[T] = b.approx
                 /\ b.called # << >>
                       => /\ cfg.requests[T] \notin DOMAIN b.handed
                          /\ b.called = <<BuilderOf(cfg.requests[T])>>)
    /\ [][\A i \in 1..Len(stack) :
             (/\ stack[i].kind = "recursive"
              /\ i <= Len(stack')
              /\ stack'[i].kind = "recursive")
                 => stack'[i].gen = stack[i].gen]_vars
    /\ [][handles' = handles]_vars

\* a second layer whose step had to insert the other type again
C19_InsertedAgain ==
    \E fr \in LayerFrames :
        /\ fr.steps >= 2
        /\ fr.bridge.called # << >>
        /\ DOMAIN fr.bridge.handed = {fr.gen.ty}
        /\ builderCalls[BuilderOf(cfg.requests[fr.gen.ty])] >= 2

====
